---- MODULE Spec2Model ----
(***************************************************************************)
(* Model of the GET handler of app/api/emails/route.ts (MailGuardian).     *)
(*                                                                         *)
(* One request is followed from its arrival to its JSON response.  Every   *)
(* action is one uninterrupted run of the handler between two awaits: the  *)
(* resolution (or rejection) of getServerSession, of fetchGmailMessages,   *)
(* of one getGmailMessage, and of Promise.all.  Texts the handler          *)
(* inspects (the maxResults parameter, the thrown value's message) are     *)
(* sequences of one-character strings, so that parseInt and                *)
(* String.prototype.includes are computed rather than assumed.             *)
(***************************************************************************)
EXTENDS Integers, Sequences, FiniteSets, TLC

VARIABLES
    pc,           \* where the handler is: "session", "listing", "fanout", "done"
    param,        \* the request's maxResults query parameter
    session,      \* what getServerSession resolved to
    maxResults,   \* the handler's local maxResults (line 38)
    listCalls,    \* arguments of every fetchGmailMessages call made
    detailCalls,  \* arguments of every getGmailMessage call made, in call order
    messagesResponse, \* what fetchGmailMessages resolved to
    listing,      \* the promise of fetchGmailMessages: "none", "pending", "resolved", "rejected"
    branch,       \* the promise of each per-message callback
    values,       \* the values Promise.all has collected so far
    settleOrder,  \* the branches in the order their promises settled
    thrownAt,     \* the step whose failure reached the outer catch
    caught,       \* the value the outer catch received (its parameter, error)
    response      \* the NextResponse returned

vars == <<pc, param, session, maxResults, listCalls, detailCalls,
          messagesResponse, listing, branch, values, settleOrder, thrownAt,
          caught, response>>

-----------------------------------------------------------------------------
(* Bounds of the model *)

MaxParamLen == 3
MaxParts    == 2
MaxN        == 2

-----------------------------------------------------------------------------
(* Texts *)

RECURSIVE Concats(_, _)
Concats(parts, k) ==
    IF k = 0 THEN {<< >>}
    ELSE {p \o r : p \in parts, r \in Concats(parts, k - 1)}

TextsUpTo(parts, k) == UNION {Concats(parts, j) : j \in 0..k}

\* String.prototype.includes
Includes(s, sub) ==
    \E i \in 0..(Len(s) - Len(sub)) : SubSeq(s, i + 1, i + Len(sub)) = sub

-----------------------------------------------------------------------------
(* Numbers: JavaScript numbers as far as the handler needs them *)

NaN    == [nan |-> TRUE, val |-> 0]
Num(n) == [nan |-> FALSE, val |-> n]

\* Math.min
MathMin(a, b) ==
    IF a.nan \/ b.nan THEN NaN
    ELSE IF a.val <= b.val THEN a ELSE b

Digits == {"0", "1", "2", "3", "4", "5", "6", "7", "8", "9"}

DigitVal(c) ==
    CASE c = "0" -> 0 [] c = "1" -> 1 [] c = "2" -> 2 [] c = "3" -> 3
      [] c = "4" -> 4 [] c = "5" -> 5 [] c = "6" -> 6 [] c = "7" -> 7
      [] c = "8" -> 8 [] c = "9" -> 9

\* the length of the longest prefix of s made of decimal digits
RECURSIVE DigitPrefixLen(_)
DigitPrefixLen(s) ==
    IF s = << >> \/ Head(s) \notin Digits THEN 0
    ELSE 1 + DigitPrefixLen(Tail(s))

\* the value of a sequence of decimal digits
RECURSIVE DecimalValue(_)
DecimalValue(s) ==
    IF s = << >> THEN 0
    ELSE 10 * DecimalValue(SubSeq(s, 1, Len(s) - 1)) + DigitVal(s[Len(s)])

\* Number.parseInt with no radix, on texts without white space or a 0x prefix:
\* an optional sign, then the longest run of digits; NaN when there is none.
ParseInt(s) ==
    LET signed == s # << >> /\ Head(s) \in {"-", "+"}
        body   == IF signed THEN Tail(s) ELSE s
        n      == DigitPrefixLen(body)
        v      == DecimalValue(SubSeq(body, 1, n))
    IN  IF n = 0 THEN NaN
        ELSE IF signed /\ Head(s) = "-" THEN Num(0 - v) ELSE Num(v)

-----------------------------------------------------------------------------
(* The request *)

ParamChars == {"0", "1", "2", "-"}

\* searchParams.get("maxResults"): null when the parameter is absent
NoParam == [present |-> FALSE, text |-> << >>]
Params ==
    {NoParam} \cup
    {[present |-> TRUE, text |-> t] :
        t \in TextsUpTo({<<c>> : c \in ParamChars}, MaxParamLen)}

DefaultMaxResults == <<"1", "0">>
MaxResultsCap     == 20

\* searchParams.get("maxResults") || "10": null and "" are falsy
ParamOrDefault(p) ==
    IF ~p.present \/ p.text = << >> THEN DefaultMaxResults ELSE p.text

\* line 38 without Math.min
EffectiveLimitUncapped(p) == ParseInt(ParamOrDefault(p))

\* line 38
EffectiveLimit(p) == MathMin(ParseInt(ParamOrDefault(p)), Num(MaxResultsCap))

-----------------------------------------------------------------------------
(* The session *)

\* a session is null, or carries an accessToken that may be undefined or ""
NoSession == [exists |-> FALSE, accessToken |-> "undefined"]
Sessions ==
    {NoSession} \cup
    {[exists |-> TRUE, accessToken |-> t] : t \in {"undefined", "", "ya29.token"}}

\* session.accessToken === undefined
TokenUndefined(s) == s.accessToken = "undefined"

\* !session.accessToken
TokenMissing(s) == s.accessToken \in {"undefined", ""}

-----------------------------------------------------------------------------
(* Thrown values *)

\* the pieces the texts of thrown values are put together from
Fragments ==
    {<<"4", "0", "1">>, <<"4", "0", "3">>, <<"4", "2", "9">>, <<"4", "0", "0">>,
     <<"5", "0", "0">>, <<"5">>, <<"x">>, <<"4">>, <<"0", "1">>}

Texts == TextsUpTo(Fragments, MaxParts)

\* a thrown value: an Error with a message, or anything else with its String() form
Thrown == [isError : BOOLEAN, text : Texts]

NoThrown == [isError |-> FALSE, text |-> << >>]

\* what a per-message branch may fail with
BranchThrown ==
    {[isError |-> TRUE, text |-> <<"4", "0", "3">>],
     [isError |-> TRUE, text |-> <<"x">>],
     [isError |-> FALSE, text |-> <<"5">>]}

-----------------------------------------------------------------------------
(* The outer catch: lines 89-192 *)

UnknownError == [code |-> "UNKNOWN_ERROR", status |-> 500]

\* the chain with the 403 test ahead of the 401 test
ClassifyMessage403First(text) ==
    IF Includes(text, <<"4", "0", "3">>)
        THEN [code |-> "PERMISSION_DENIED", status |-> 403]
    ELSE IF Includes(text, <<"4", "0", "1">>)
        THEN [code |-> "TOKEN_EXPIRED", status |-> 401]
    ELSE IF Includes(text, <<"4", "2", "9">>)
        THEN [code |-> "RATE_LIMITED", status |-> 429]
    ELSE IF Includes(text, <<"4", "0", "0">>)
        THEN [code |-> "BAD_REQUEST", status |-> 400]
    ELSE IF Includes(text, <<"5", "0", "0">>) \/ Includes(text, <<"5">>)
        THEN [code |-> "SERVER_ERROR", status |-> 503]
    ELSE UnknownError

\* the chain of includes() tests on error.message, lines 104-177
ClassifyMessage(text) ==
    IF Includes(text, <<"4", "0", "1">>)
        THEN [code |-> "TOKEN_EXPIRED", status |-> 401]
    ELSE IF Includes(text, <<"4", "0", "3">>)
        THEN [code |-> "PERMISSION_DENIED", status |-> 403]
    ELSE IF Includes(text, <<"4", "2", "9">>)
        THEN [code |-> "RATE_LIMITED", status |-> 429]
    ELSE IF Includes(text, <<"4", "0", "0">>)
        THEN [code |-> "BAD_REQUEST", status |-> 400]
    ELSE IF Includes(text, <<"5", "0", "0">>) \/ Includes(text, <<"5">>)
        THEN [code |-> "SERVER_ERROR", status |-> 503]
    ELSE UnknownError

\* the chain applied to String(error), with no instanceof test
ClassifyAnyValue(e) == ClassifyMessage(e.text)

\* if (error instanceof Error) { ... } and the fall-through of line 183
Classify(e) == IF e.isError THEN ClassifyMessage(e.text) ELSE UnknownError

Now == "toISOString"

ErrorResponse(e) ==
    LET c == Classify(e)
    IN  [status |-> c.status,
         body |->
           CASE c.code = "TOKEN_EXPIRED" ->
                  [error |-> "Gmail access token expired. Please sign out and sign in again.",
                   code |-> c.code,
                   details |-> "Your authentication token is no longer valid.",
                   timestamp |-> Now]
             [] c.code = "PERMISSION_DENIED" ->
                  [error |-> "Gmail API access denied. Make sure you granted permission to read your emails.",
                   code |-> c.code,
                   details |-> "The access token doesn't have Gmail permission. Please sign out and sign in again, then allow Gmail access.",
                   suggestion |-> "Check that you clicked 'Allow' for Gmail permissions during login.",
                   troubleshooting |-> "1. Visit https://myaccount.google.com/permissions 2. Find MailGuardian 3. Click Remove Access 4. Sign in again",
                   timestamp |-> Now]
             [] c.code = "RATE_LIMITED" ->
                  [error |-> "Gmail API rate limit exceeded. Please try again in a few minutes.",
                   code |-> c.code,
                   timestamp |-> Now]
             [] c.code = "BAD_REQUEST" ->
                  [error |-> "Invalid request to Gmail API.",
                   code |-> c.code,
                   details |-> e.text,
                   timestamp |-> Now]
             [] c.code = "SERVER_ERROR" ->
                  [error |-> "Gmail API server error. Please try again in a few minutes.",
                   code |-> c.code,
                   timestamp |-> Now]
             [] OTHER ->
                  [error |-> "Failed to fetch emails from Gmail API",
                   code |-> c.code,
                   details |-> e.text,
                   timestamp |-> Now]]

\* lines 15-18 and 20-23
NotAuthenticated ==
    [status |-> 401, body |-> [error |-> "Not authenticated"]]
NoAccessToken ==
    [status |-> 401,
     body |-> [error |-> "No access token available. Please sign in again."]]

\* no response yet
NoResponse == [status |-> 0, body |-> [pending |-> TRUE]]

-----------------------------------------------------------------------------
(* The listing and the per-message fan-out *)

Ids == 1..MaxN

\* the lists of references a listing may hold: every id at most once
Listings ==
    {l \in UNION {[1..n -> Ids] : n \in 0..MaxN} :
        \A i, j \in DOMAIN l : l[i] = l[j] => i = j}

\* what fetchGmailMessages resolves to: messages may be absent
NoListing == [hasMessages |-> FALSE, messages |-> << >>]
ListingResponses ==
    {NoListing} \cup
    {[hasMessages |-> TRUE, messages |-> l] : l \in Listings}

\* !messagesResponse.messages
MessagesAbsent(r) == ~r.hasMessages

\* !messagesResponse.messages || messagesResponse.messages.length === 0
NoMessages(r) == ~r.hasMessages \/ Len(r.messages) = 0

\* lines 54-59
EmptyEnvelope ==
    [status |-> 200,
     body |-> [emails |-> << >>,
               message |-> "No emails found in your inbox.",
               totalFetched |-> 0,
               timestamp |-> Now]]

\* what a branch yields: the analyzer's result for a message, or null
Null             == [nul |-> TRUE, id |-> 0]
AnalyzedEmail(m) == [nul |-> FALSE, id |-> m]

\* every reference taken twice
FanOutRefsTwice(msgs) == msgs \o msgs

\* the references messages.map() runs the callback on
FanOutRefs(msgs) == msgs

PendingBranch == [state |-> "pending", failedAt |-> "none", reason |-> NoThrown]

\* no try/catch in the callback: the branch's promise rejects
RethrowBranch(at, e) == [state |-> "rejected", failedAt |-> at, reason |-> e]

\* try/catch around analyzeEmail only: a failed fetch rejects the promise
CatchAnalyzerOnly(at, e) ==
    IF at = "fetch"
        THEN [state |-> "rejected", failedAt |-> at, reason |-> e]
        ELSE [state |-> "fulfilled", failedAt |-> at, reason |-> NoThrown]

\* catch (error) { ...; return null }, lines 72-75: the branch's promise fulfils
CatchBranch(at, e) == [state |-> "fulfilled", failedAt |-> at, reason |-> NoThrown]

\* each fulfilment value pushed as it arrives
PushResult(vals, i, v) == ((Cardinality(DOMAIN vals) + 1) :> v) @@ vals

\* Promise.all keeps each fulfilment value at the index of its promise
StoreResult(vals, i, v) == (i :> v) @@ vals

\* no filter
KeepAll(results) == results

\* results.filter((email) => email !== null)
FilterNonNull(results) == SelectSeq(results, LAMBDA e : ~e.nul)

\* lines 84-88
SuccessEnvelope(results) ==
    LET analyzedEmails == FilterNonNull(results)
    IN  [status |-> 200,
         body |-> [emails |-> analyzedEmails,
                   totalFetched |-> Len(analyzedEmails),
                   timestamp |-> Now]]

\* Promise.all: rejected once one promise is, fulfilled once all are
PromiseAllState(b) ==
    IF \E i \in DOMAIN b : b[i].state = "rejected" THEN "rejected"
    ELSE IF \A i \in DOMAIN b : b[i].state = "fulfilled" THEN "fulfilled"
    ELSE "pending"

-----------------------------------------------------------------------------
(* The handler *)

NoValues == [i \in {} |-> Null]

Init ==
    /\ pc = "session"
    /\ param \in Params
    /\ session = NoSession
    /\ maxResults = NaN
    /\ listCalls = << >>
    /\ detailCalls = << >>
    /\ messagesResponse = NoListing
    /\ listing = "none"
    /\ branch = << >>
    /\ values = NoValues
    /\ settleOrder = << >>
    /\ thrownAt = "none"
    /\ caught = NoThrown
    /\ response = NoResponse

\* getServerSession resolved: lines 13-45, up to the await of the listing
SessionResolved ==
    /\ pc = "session"
    /\ \E s \in Sessions :
        /\ session' = s
        /\ IF ~s.exists THEN
              /\ response' = NotAuthenticated
              /\ pc' = "done"
              /\ UNCHANGED <<maxResults, listCalls, listing>>
           ELSE IF TokenMissing(s) THEN
              /\ response' = NoAccessToken
              /\ pc' = "done"
              /\ UNCHANGED <<maxResults, listCalls, listing>>
           ELSE
              /\ maxResults' = EffectiveLimit(param)
              /\ listCalls' = Append(listCalls,
                                [token |-> s.accessToken, limit |-> EffectiveLimit(param)])
              /\ listing' = "pending"
              /\ pc' = "listing"
              /\ UNCHANGED response
    /\ UNCHANGED <<param, detailCalls, messagesResponse, branch, values,
                   settleOrder, thrownAt, caught>>

\* getServerSession rejected: the await of line 13 is inside the outer try
SessionRejected ==
    /\ pc = "session"
    /\ \E e \in Thrown :
        /\ caught' = e
        /\ response' = ErrorResponse(e)
        /\ thrownAt' = "session"
        /\ pc' = "done"
    /\ UNCHANGED <<param, session, maxResults, listCalls, detailCalls,
                   messagesResponse, listing, branch, values, settleOrder>>

\* fetchGmailMessages rejected: lines 47-50 rethrow, lines 89-192 answer
ListingRejected ==
    /\ pc = "listing"
    /\ \E e \in Thrown :
        /\ caught' = e
        /\ response' = ErrorResponse(e)
        /\ thrownAt' = "listing"
        /\ listing' = "rejected"
        /\ pc' = "done"
    /\ UNCHANGED <<param, session, maxResults, listCalls, detailCalls,
                   messagesResponse, branch, values, settleOrder>>

\* fetchGmailMessages resolved: lines 46-78, up to the await of Promise.all;
\* map() has called getGmailMessage once in every callback by then
ListingResolved ==
    /\ pc = "listing"
    /\ \E r \in ListingResponses :
        /\ listing' = "resolved"
        /\ messagesResponse' = r
        /\ IF NoMessages(r) THEN
              /\ response' = EmptyEnvelope
              /\ pc' = "done"
              /\ UNCHANGED <<detailCalls, branch>>
           ELSE
              /\ detailCalls' =
                    [i \in 1..Len(FanOutRefs(r.messages)) |->
                        [token |-> session.accessToken, id |-> FanOutRefs(r.messages)[i]]]
              /\ branch' = [i \in 1..Len(FanOutRefs(r.messages)) |-> PendingBranch]
              /\ pc' = "fanout"
              /\ UNCHANGED response
    /\ UNCHANGED <<param, session, maxResults, listCalls, values, settleOrder,
                   thrownAt, caught>>

\* getGmailMessage of branch i resolved: analyzeEmail runs at once, lines 69-71
DetailResolved(i) ==
    /\ pc = "fanout"
    /\ i \in DOMAIN branch
    /\ branch[i].state = "pending"
    /\ \/ /\ branch' = [branch EXCEPT ![i].state = "fulfilled"]
          /\ values' = StoreResult(values, i, AnalyzedEmail(detailCalls[i].id))
       \/ \E e \in BranchThrown :
            LET b == CatchBranch("analyze", e)
            IN  /\ branch' = [branch EXCEPT ![i] = b]
                /\ values' = IF b.state = "fulfilled"
                                THEN StoreResult(values, i, Null) ELSE values
    /\ settleOrder' = Append(settleOrder, i)
    /\ UNCHANGED <<pc, param, session, maxResults, listCalls, detailCalls,
                   messagesResponse, listing, thrownAt, caught, response>>

\* getGmailMessage of branch i rejected: lines 72-75
DetailRejected(i) ==
    /\ pc = "fanout"
    /\ i \in DOMAIN branch
    /\ branch[i].state = "pending"
    /\ \E e \in BranchThrown :
        LET b == CatchBranch("fetch", e)
        IN  /\ branch' = [branch EXCEPT ![i] = b]
            /\ values' = IF b.state = "fulfilled"
                            THEN StoreResult(values, i, Null) ELSE values
    /\ settleOrder' = Append(settleOrder, i)
    /\ UNCHANGED <<pc, param, session, maxResults, listCalls, detailCalls,
                   messagesResponse, listing, thrownAt, caught, response>>

\* Promise.all settled: lines 78-88, or the outer catch if it rejected
PromiseAllSettled ==
    /\ pc = "fanout"
    /\ PromiseAllState(branch) # "pending"
    /\ IF PromiseAllState(branch) = "rejected" THEN
          /\ \E i \in DOMAIN branch :
                /\ branch[i].state = "rejected"
                /\ caught' = branch[i].reason
                /\ response' = ErrorResponse(branch[i].reason)
          /\ thrownAt' = "fanout"
       ELSE
          /\ response' = SuccessEnvelope([i \in 1..Len(branch) |-> values[i]])
          /\ UNCHANGED <<thrownAt, caught>>
    /\ pc' = "done"
    /\ UNCHANGED <<param, session, maxResults, listCalls, detailCalls,
                   messagesResponse, listing, branch, values, settleOrder>>

Next ==
    \/ SessionResolved
    \/ SessionRejected
    \/ ListingRejected
    \/ ListingResolved
    \/ \E i \in 1..MaxN : DetailResolved(i)
    \/ \E i \in 1..MaxN : DetailRejected(i)
    \/ PromiseAllSettled

Spec == Init /\ [][Next]_vars

\* the event loop runs the continuation of a settled await
FairSpec == Spec /\ WF_vars(PromiseAllSettled)

-----------------------------------------------------------------------------
(* What the claims speak of *)

Answered  == pc = "done"
Body      == response.body
HasCode   == "code" \in DOMAIN Body
Listed    == messagesResponse.messages
Failed    == {i \in DOMAIN branch : branch[i].failedAt # "none"}
Survivors == {i \in DOMAIN branch : branch[i].state = "fulfilled" /\ branch[i].failedAt = "none"}
FannedOut == listing = "resolved" /\ Len(Listed) > 0
SessionWasResolved == pc # "session" /\ thrownAt # "session"

TaxonomyCodes ==
    {"TOKEN_EXPIRED", "PERMISSION_DENIED", "RATE_LIMITED", "BAD_REQUEST",
     "SERVER_ERROR", "UNKNOWN_ERROR"}

\* the rows of the error taxonomy, in their priority order
Taxonomy ==
    << [subs |-> {<<"4", "0", "1">>}, code |-> "TOKEN_EXPIRED", status |-> 401],
       [subs |-> {<<"4", "0", "3">>}, code |-> "PERMISSION_DENIED", status |-> 403],
       [subs |-> {<<"4", "2", "9">>}, code |-> "RATE_LIMITED", status |-> 429],
       [subs |-> {<<"4", "0", "0">>}, code |-> "BAD_REQUEST", status |-> 400],
       [subs |-> {<<"5", "0", "0">>, <<"5">>}, code |-> "SERVER_ERROR", status |-> 503] >>

MatchingRows(text) ==
    {r \in DOMAIN Taxonomy : \E sub \in Taxonomy[r].subs : Includes(text, sub)}

FirstOf(rows) == CHOOSE r \in rows : \A q \in rows : r <= q

PositionIn(seq, x) == CHOOSE i \in DOMAIN seq : seq[i] = x

AllDigits(t) == t # << >> /\ \A i \in DOMAIN t : t[i] \in Digits

-----------------------------------------------------------------------------
(* The claims *)

\* C1: after a listing of N references of which K per-message operations
\* (detail fetch or analyzer) threw, whichever they are, the response has
\* status 200, exactly N-K emails and totalFetched = N-K, and is no error
\* response.
C1_PartialFailure ==
    (Answered /\ FannedOut) =>
        LET N == Len(Listed)
            K == Cardinality(Failed)
        IN  /\ response.status = 200
            /\ ~HasCode
            /\ "emails" \in DOMAIN Body
            /\ Len(Body.emails) = N - K
            /\ Body.totalFetched = N - K

\* of two listed messages one failed and one survived, and the answer has one
C1_Witness ==
    /\ Answered /\ FannedOut
    /\ Len(Listed) = 2
    /\ Cardinality(Failed) = 1
    /\ Cardinality(Survivors) = 1
    /\ response.status = 200
    /\ Body.totalFetched = 1

\* C2: whatever the order in which the branches completed, the emails of the
\* success response are the surviving messages' results in the relative order
\* of their references in the listing.
C2_ListingOrder ==
    (Answered /\ FannedOut /\ "emails" \in DOMAIN Body) =>
        /\ {Body.emails[a].id : a \in DOMAIN Body.emails} = {Listed[i] : i \in Survivors}
        /\ \A a, b \in DOMAIN Body.emails :
              a < b => PositionIn(Listed, Body.emails[a].id)
                         < PositionIn(Listed, Body.emails[b].id)

\* the last listed message completed first, and both are in the response
C2_Witness ==
    /\ Answered /\ FannedOut
    /\ Len(Listed) >= 2
    /\ Len(settleOrder) = Len(Listed)
    /\ settleOrder[1] = Len(Listed)
    /\ {1, Len(Listed)} \subseteq Survivors
    /\ Listed[1] > Listed[Len(Listed)]

\* C3 as stated: a maxResults above 20 yields the limit 20, and a maxResults
\* of 0 or an omitted parameter yields the default of 10.
C3_Original ==
    listCalls # << >> =>
        /\ (param.present /\ AllDigits(param.text) /\ DecimalValue(param.text) > 20)
              => listCalls[1].limit = Num(20)
        /\ (~param.present \/ param.text = <<"0">>)
              => listCalls[1].limit = Num(10)

\* C3 amended: a maxResults above 20 yields the limit 20, an omitted or empty
\* parameter yields the default of 10, and a maxResults of 0 yields 0.
C3_Clamp ==
    listCalls # << >> =>
        /\ (param.present /\ AllDigits(param.text) /\ DecimalValue(param.text) > 20)
              => listCalls[1].limit = Num(20)
        /\ (~param.present \/ param.text = << >>)
              => listCalls[1].limit = Num(10)
        /\ (param.present /\ param.text = <<"0">>)
              => listCalls[1].limit = Num(0)

\* the listing was called for a request with maxResults=0
C3_Witness ==
    /\ listCalls # << >>
    /\ param.present /\ param.text = <<"0">>
    /\ maxResults = Num(0)

\* C4: when the listing call throws an Error, the code and status of the
\* response are those of the first row of the taxonomy whose substring occurs
\* in the message, and UNKNOWN_ERROR / 500 when no row matches.
C4_FirstMatch ==
    (Answered /\ thrownAt = "listing" /\ caught.isError) =>
        LET rows == MatchingRows(caught.text)
        IN  /\ HasCode
            /\ IF rows = {}
                  THEN Body.code = "UNKNOWN_ERROR" /\ response.status = 500
                  ELSE /\ Body.code = Taxonomy[FirstOf(rows)].code
                       /\ response.status = Taxonomy[FirstOf(rows)].status

\* the message holds both "401" and "403", and the answer is the 401 one
C4_Witness ==
    /\ Answered /\ thrownAt = "listing" /\ caught.isError
    /\ Includes(caught.text, <<"4", "0", "1">>)
    /\ Includes(caught.text, <<"4", "0", "3">>)
    /\ response.status = 401 /\ Body.code = "TOKEN_EXPIRED"

\* C5: with no session, or a session whose access token is undefined or empty,
\* the response has status 401, an error field and no code field, the two
\* cases have different error messages, and the listing is never called.
C5_Unauthenticated ==
    (SessionWasResolved /\ (~session.exists \/ session.accessToken \in {"undefined", ""})) =>
        /\ Answered
        /\ response.status = 401
        /\ "error" \in DOMAIN Body
        /\ ~HasCode
        /\ (~session.exists => Body.error = "Not authenticated")
        /\ (session.exists => Body.error # "Not authenticated")
        /\ listCalls = << >>

\* a session with an empty access token was answered
C5_Witness ==
    /\ Answered /\ SessionWasResolved
    /\ session.exists /\ session.accessToken = ""
    /\ response.status = 401

\* C6: when the listing resolves with an empty or absent list, the response has
\* status 200, emails = [], totalFetched = 0 and a message field, it is no
\* error response, and no detail fetch is made.
C6_EmptyListing ==
    (Answered /\ listing = "resolved" /\ Len(Listed) = 0) =>
        /\ response.status = 200
        /\ ~HasCode /\ "error" \notin DOMAIN Body
        /\ "emails" \in DOMAIN Body /\ Body.emails = << >>
        /\ Body.totalFetched = 0
        /\ "message" \in DOMAIN Body
        /\ detailCalls = << >>

\* the listing resolved with messages absent
C6_Witness ==
    /\ Answered /\ listing = "resolved"
    /\ ~messagesResponse.hasMessages
    /\ response.status = 200

\* C7 as stated: a response with a code of the taxonomy is produced only when
\* the listing call itself failed.
C7_Original ==
    (Answered /\ HasCode /\ Body.code \in TaxonomyCodes) => listing = "rejected"

\* C7 amended: a response with a code of the taxonomy is produced only when the
\* session resolution or the listing call failed; no detail fetch has been made
\* then, and a request in which a per-message operation failed gets no code.
C7_OuterCatch ==
    /\ (Answered /\ HasCode /\ Body.code \in TaxonomyCodes) =>
          /\ listing \in {"none", "rejected"}
          /\ listing = "none" => session = NoSession /\ listCalls = << >>
          /\ detailCalls = << >>
          /\ Failed = {}
    /\ (Answered /\ Failed # {}) => ~HasCode

\* the session resolution failed and the answer is a classified error
C7_Witness ==
    /\ Answered /\ thrownAt = "session"
    /\ HasCode /\ Body.code = "PERMISSION_DENIED"
    /\ listCalls = << >>

\* C8: the response to a non-empty listing is produced only once every branch
\* has completed, even when some branch failed; and once all have completed,
\* the success response is eventually produced.
C8_Barrier ==
    /\ []((FannedOut /\ response # NoResponse) =>
            /\ Len(branch) = Len(Listed)
            /\ \A i \in DOMAIN branch : branch[i].state # "pending")
    /\ ((pc = "fanout" /\ \A i \in DOMAIN branch : branch[i].state # "pending")
            ~> (Answered /\ response.status = 200))

\* answered after a branch failed first and another one completed later
C8_Witness ==
    /\ Answered /\ FannedOut
    /\ Len(settleOrder) = Len(Listed)
    /\ Len(Listed) >= 2
    /\ settleOrder[1] \in Failed
    /\ settleOrder[Len(settleOrder)] \in Survivors

\* C9: the listing is called at most once, also after it failed, and the detail
\* fetch is called exactly once for each listed reference, also after fetches
\* failed.
C9_NoRetry ==
    /\ Len(listCalls) <= 1
    /\ listing # "none" => Len(listCalls) = 1
    /\ listing # "resolved" => detailCalls = << >>
    /\ FannedOut =>
          /\ Len(detailCalls) = Len(Listed)
          /\ \A i \in DOMAIN Listed :
                Cardinality({k \in DOMAIN detailCalls : detailCalls[k].id = Listed[i]}) = 1

\* every detail fetch failed and the request was answered
C9_Witness ==
    /\ Answered /\ FannedOut
    /\ Len(Listed) = 2
    /\ \A i \in DOMAIN branch : branch[i].failedAt = "fetch"
    /\ Len(detailCalls) = 2

\* C10: when the value the listing call throws is no Error instance, the
\* response is UNKNOWN_ERROR with status 500 whatever its text holds.
C10_NonError ==
    (Answered /\ thrownAt = "listing" /\ ~caught.isError) =>
        /\ response.status = 500
        /\ HasCode /\ Body.code = "UNKNOWN_ERROR"

\* a thrown non-Error whose text holds "401"
C10_Witness ==
    /\ Answered /\ thrownAt = "listing" /\ ~caught.isError
    /\ Includes(caught.text, <<"4", "0", "1">>)
    /\ response.status = 500

====
